---- MODULE Spec2Model ----
(***************************************************************************)
(* A model of the KC85 ROM-module image builders.                          *)
(*                                                                         *)
(*   kc85.py       builds an M048 / M049 image: file contents padded to    *)
(*                 4 KiB blocks, an optional DUMMY.ROM filler, and a       *)
(*                 directory of 16-byte records in the last bytes.         *)
(*   M044/m044.py  builds an M044 image: files placed at given positions,  *)
(*                 0xFF everywhere else.                                   *)
(*                                                                         *)
(* Bytes are integers 0..255, characters are their code points, a name is  *)
(* a sequence of characters.  A file on disk is a sequence of runs: a run  *)
(* of bytes of one input file, a run of one repeated byte, or a run of     *)
(* literal bytes.  The byte contents of an input file are not interpreted  *)
(* by either program, so byte j of input file i is the pair (i, j).  Each   *)
(* run carries the offset of its first byte.                               *)
(* Sequences are 1-based here: an index of the code is the model's index   *)
(* minus one (swapped_with_back_id included).                              *)
(***************************************************************************)
EXTENDS Integers, Sequences, FiniteSets, TLC

VARIABLES
    modus,                      \* kc85: "M048" / "M049", from the output file's name
    files,                      \* kc85: the manifest's input lines, in order
    disk,                       \* kc85: the output file
    pc,                         \* kc85: position in main()
    err,                        \* kc85: the exception that ended the build, or "none"
    contents,                   \* kc85: main's list of FileContent
    new_contents,               \* kc85: new_contents of write_files_with_padding
    write_offsets,              \* kc85: where each content of new_contents was written
    swapped_with_back_id,       \* kc85: main's swapped_with_back_id (1-based)
    free_space_in_padding_size, \* kc85: main's free_space_in_padding_size
    output_file_size_in_MB,     \* m044: the size given in the manifest
    m_files,                    \* m044: the manifest's input lines, in order
    m_contents,                 \* m044: main's list of FileContent
    m_written,                  \* m044: how many passes of write_file's loop were made
    current_file_size,          \* m044: current_file_size of write_file
    m_disk,                     \* m044: the output file
    m_pc,                       \* m044: position in main()
    m_err                       \* m044: the exception that ended the run, or "none"

kcvars == <<modus, files, disk, pc, err, contents, new_contents, write_offsets,
            swapped_with_back_id, free_space_in_padding_size>>
mvars == <<output_file_size_in_MB, m_files, m_contents, m_written, current_file_size,
           m_disk, m_pc, m_err>>
vars == <<kcvars, mvars>>

(***************************************************************************)
(* Bounds of the model.                                                    *)
(***************************************************************************)
\* longest list of input files whose lengths are drawn freely from a set
MaxFiles == 3
\* longest list of input lines of an M044 manifest
MaxPlaced == 3

(***************************************************************************)
(* Small helpers.                                                          *)
(***************************************************************************)
Min(S) == CHOOSE x \in S : \A y \in S : x <= y
Max(S) == CHOOSE x \in S : \A y \in S : x >= y

(***************************************************************************)
(* Files on disk.                                                          *)
(***************************************************************************)
\* st_size / tell() at the end of the file
Size(img) == IF img = <<>> THEN 0 ELSE img[Len(img)].pos + img[Len(img)].len

\* len bytes of input file id, from its first byte
ContentRun(id, len) == [kind |-> "content", id |-> id, off |-> 0, len |-> len, data |-> <<>>]
\* bytes([b]) * len
FillRun(b, len) == [kind |-> "fill", id |-> b, off |-> 0, len |-> len, data |-> <<>>]
\* the literal bytes data
RawRun(data) == [kind |-> "raw", id |-> 0, off |-> 0, len |-> Len(data), data |-> data]

\* file.write(run) on a file opened "ab": the bytes are appended; writing
\* nothing changes nothing
Write(img, run) ==
    IF run.len <= 0 THEN img
    ELSE Append(img, [kind |-> run.kind, id |-> run.id, off |-> run.off, len |-> run.len,
                      data |-> run.data, pos |-> Size(img)])

\* file.seek(n); file.truncate(): the first n bytes are kept
Truncate(img, n) ==
    LET kept == {i \in 1..Len(img) : img[i].pos < n}
        clip(r) == IF r.pos + r.len <= n THEN r
                   ELSE [r EXCEPT !.len = n - r.pos,
                                  !.data = IF r.kind = "raw"
                                           THEN SubSeq(r.data, 1, n - r.pos) ELSE <<>>]
    IN  [i \in 1..Cardinality(kept) |-> clip(img[i])]

\* the byte at offset p (from 0): byte `at` of input file `file`, or, with
\* file = 0, the literal byte `at`
ByteAt(img, p) ==
    LET r == img[CHOOSE i \in 1..Len(img) : img[i].pos <= p /\ p < img[i].pos + img[i].len]
    IN  IF r.kind = "content" THEN [file |-> r.id, at |-> r.off + (p - r.pos)]
        ELSE IF r.kind = "fill" THEN [file |-> 0, at |-> r.id]
        ELSE [file |-> 0, at |-> r.data[p - r.pos + 1]]

\* bytes p .. p+len-1 of the file are bytes 0 .. len-1 of input file id
HoldsContent(img, p, id, len) ==
    /\ p + len <= Size(img)
    /\ \A i \in 1..Len(img) :
          (img[i].pos < p + len /\ p < img[i].pos + img[i].len /\ len > 0)
              => /\ img[i].kind = "content"
                 /\ img[i].id = id
                 /\ img[i].pos - img[i].off = p

\* the output file before it is created / after unlink
NoFile == [exists |-> FALSE, bytes |-> <<>>]
\* an output file left by an earlier run
StaleFile == [exists |-> TRUE, bytes |-> Write(<<>>, FillRun(0, 4096))]

(***************************************************************************)
(* kc85.py: configuration and names.                                       *)
(***************************************************************************)
modi == {"M048", "M049"}

get_config(m) ==
    [directory_entry_size |-> 16,
     max_stem_size        |-> 8,
     max_extension_size   |-> 3,
     cluster_size         |-> 16 * 1024,
     padding_size         |-> 4 * 1024,
     sector_size          |-> 128,
     max_number_of_files  |-> IF m = "M048" THEN 32 ELSE 64,
     final_file_size      |-> IF m = "M048" THEN 256 * 1024 ELSE 512 * 1024]

\* os.path.splitext on a file name: split before the last dot, unless only
\* dots precede it
splitext(p) ==
    LET dots == {i \in 1..Len(p) : p[i] = 46}
        dotIndex == IF dots = {} THEN 0 ELSE Max(dots)
    IN  IF dotIndex > 0 /\ \E k \in 1..(dotIndex - 1) : p[k] # 46
        THEN <<SubSeq(p, 1, dotIndex - 1), SubSeq(p, dotIndex, Len(p))>>
        ELSE <<p, <<>>>>

\* the InputError resolve_name raises for a name, or "none"
resolve_name(resolved_name) ==
    LET stem == splitext(resolved_name)[1]
        extension == splitext(resolved_name)[2]
    IN  IF Len(stem) > 8 THEN "NameTooLong"
        ELSE IF Len(extension) > 4 THEN "NameTooLong"
        ELSE IF \E i \in 1..Len(resolved_name) : resolved_name[i] > 127 THEN "NonAsciiName"
        ELSE "none"

\* get_file_contents, after the manifest's lines were read: the error raised
\* (err) or the FileContent list (contents).  A line is a directory, a file
\* name and the length of the file found there (every file named exists).
\* "NoInputFiles" is the error of line 112, "TooManyFiles" of line 125,
\* "DuplicateName" of line 131 ("entries ... are not unique": the lines as
\* written are compared), the others are resolve_name's.
get_file_contents(m, lines) ==
    LET max_number_of_files == get_config(m).max_number_of_files
        raw == {<<lines[i].dir, lines[i].name>> : i \in 1..Len(lines)}
        bad == {i \in 1..Len(lines) : resolve_name(lines[i].name) # "none"}
        fail(e) == [err |-> e, contents |-> <<>>]
    IN  IF Len(lines) = 0 THEN fail("NoInputFiles")
        ELSE IF Len(lines) > max_number_of_files THEN fail("TooManyFiles")
        ELSE IF Len(lines) > Cardinality(raw) THEN fail("DuplicateName")
        ELSE IF bad # {} THEN fail(resolve_name(lines[Min(bad)].name))
        ELSE [err |-> "none",
              contents |-> [i \in 1..Len(lines) |->
                  [filename |-> lines[i].name, id |-> i, len |-> lines[i].len,
                   starting_sector |-> -1]]]

(***************************************************************************)
(* kc85.py: layout of the image.                                           *)
(***************************************************************************)
\* the score of move_smallest_file_to_back for a content of len bytes
waste(m, len) == Max({0, len - 1}) % get_config(m).padding_size

\* min((score, idx)) of move_smallest_file_to_back: the smallest score, and
\* among equal scores the smallest index
smallest_file(m, cs) ==
    LET val == Min({waste(m, cs[i].len) : i \in 1..Len(cs)})
    IN  Min({i \in 1..Len(cs) : waste(m, cs[i].len) = val})

\* the list with elements a and b exchanged
swap(s, a, b) == [s EXCEPT ![a] = s[b], ![b] = s[a]]

move_smallest_file_to_back(m, cs) ==
    LET idc == smallest_file(m, cs)
    IN  [contents |-> swap(cs, Len(cs), idc), idc |-> idc]

\* get_current_starting_sector counting in padding blocks instead of sectors
starting_block(m, img) == Size(img) \div get_config(m).padding_size

get_current_starting_sector(m, img) == Size(img) \div get_config(m).sector_size

\* the zero padding written after a content of len bytes
padding_after(m, len) ==
    get_config(m).padding_size - (len % get_config(m).padding_size)

\* the pass of the loop without the padding written after the content
write_one_file_unpadded(m, file_content, img) ==
    [entry |-> [file_content EXCEPT !.starting_sector = get_current_starting_sector(m, img)],
     bytes |-> Write(img, ContentRun(file_content.id, file_content.len))]

\* one pass of the loop of write_files_with_padding, for file_content: the
\* element appended to new_contents and the output file
write_one_file(m, file_content, img) ==
    [entry |-> [file_content EXCEPT !.starting_sector = get_current_starting_sector(m, img)],
     bytes |-> Write(Write(img, ContentRun(file_content.id, file_content.len)),
                     FillRun(0, padding_after(m, file_content.len)))]

\* the check of write_files_with_padding after its loop
file_size_error(m, img) ==
    IF Size(img) > get_config(m).final_file_size THEN "ImageOverflow" ELSE "none"

DummyName == <<68, 85, 77, 77, 89, 46, 82, 79, 77>>   \* "DUMMY.ROM"

\* a DUMMY.ROM content that leaves the room of the directory free
dummy_size_before_directory(m, file_size) ==
    Max({0, get_config(m).final_file_size - file_size
                - get_config(m).max_number_of_files * get_config(m).directory_entry_size})

\* the length of the DUMMY.ROM content for an output file of file_size bytes
dummy_size(m, file_size) == Max({0, get_config(m).final_file_size - file_size})

\* the bytes pad_file_until_directory_with_dummy_rom cuts off the end
directory_cut(m) == get_config(m).max_number_of_files * get_config(m).directory_entry_size

\* pad_file_until_directory_with_dummy_rom on the output file img: the error
\* raised, the list (with DUMMY.ROM appended in place), the output file and
\* the value returned
pad_file_until_directory_with_dummy_rom(m, cs, img) ==
    LET config == get_config(m)
        final_size == config.final_file_size
        padding_size == config.padding_size
        max_number_of_files == config.max_number_of_files
        space_need_for_directory == max_number_of_files * config.directory_entry_size
        file_size_after_contents == Size(img)
        blocks == (final_size \div padding_size) - (file_size_after_contents \div padding_size)
        free == IF blocks > 0 THEN blocks - 1 ELSE blocks
        space_left == padding_size - (cs[Len(cs)].len % padding_size)
        dummy == [filename |-> DummyName, id |-> 0,
                  len |-> dummy_size(m, file_size_after_contents),
                  starting_sector |-> get_current_starting_sector(m, img)]
        padded == IF file_size_after_contents = final_size THEN img
                  ELSE Write(img, FillRun(229, dummy.len))
        listed == IF file_size_after_contents = final_size THEN cs
                  ELSE Append(cs, dummy)
        stop(e) == [err |-> e, contents |-> cs, bytes |-> img, free |-> free]
    IN  IF blocks > 0 /\ ~(space_need_for_directory <= padding_size)
        THEN stop("AssertionError")
        ELSE IF ~(free >= 0) THEN stop("AssertionError")
        ELSE IF file_size_after_contents = final_size /\ space_left < space_need_for_directory
        THEN stop("DirectoryDoesNotFit")
        ELSE IF file_size_after_contents # final_size /\ ~(Len(cs) <= max_number_of_files)
        THEN stop("AssertionError")
        ELSE IF file_size_after_contents # final_size /\ Len(cs) = max_number_of_files
        THEN stop("NoSlotForFiller")
        ELSE IF Size(padded) # final_size
        THEN [err |-> "AssertionError", contents |-> listed, bytes |-> padded, free |-> free]
        ELSE [err |-> "none", contents |-> listed,
              bytes |-> Truncate(padded, Size(padded) - directory_cut(m)),
              free |-> free]

(***************************************************************************)
(* kc85.py: the directory.                                                 *)
(***************************************************************************)
get_bit(value, bit) == (value \div (2 ^ bit)) % 2

set_bit(value, bit) == IF get_bit(value, bit) = 1 THEN value ELSE value + 2 ^ bit

\* b'\x20' * n
spaces(n) == [i \in 1..Max({0, n}) |-> 32]

\* bytes 13-14 of a directory entry: to_bytes(2, byteorder='little')
sector_bytes(starting_sector) == <<starting_sector % 256, starting_sector \div 256>>

\* create_directory_entry: the exception raised, or the 16 bytes
create_directory_entry(m, file_content) ==
    LET config == get_config(m)
        stem == splitext(file_content.filename)[1]
        dotted == splitext(file_content.filename)[2]
        extension == Tail(dotted)
        num_cluster == file_content.len \div config.cluster_size
        num_remainder == ((file_content.len % config.cluster_size) + 127) \div 128
        result == <<1>> \o stem \o spaces(config.max_stem_size - Len(stem))
                  \o extension \o spaces(config.max_extension_size - Len(extension))
                  \o <<num_cluster>> \o sector_bytes(file_content.starting_sector)
                  \o <<num_remainder>>
        flagged == [i \in 1..Len(result) |->
                       IF i \in {3, 9, 10} THEN set_bit(result[i], 7) ELSE result[i]]
        stop(e) == [err |-> e, entry |-> <<>>]
    IN  IF dotted = <<>> THEN stop("IndexError")
        ELSE IF dotted[1] # 46 THEN stop("AssertionError")
        ELSE IF num_cluster > 255 THEN stop("OverflowError")
        ELSE IF file_content.starting_sector = -1 THEN stop("AssertionError")
        ELSE IF file_content.starting_sector \notin 0..65535 THEN stop("OverflowError")
        ELSE IF num_remainder > 255 THEN stop("OverflowError")
        ELSE IF \E i \in 2..12 : get_bit(result[i], 7) # 0 THEN stop("AssertionError")
        ELSE IF Len(result) # config.directory_entry_size THEN stop("AssertionError")
        ELSE [err |-> "none", entry |-> flagged]

\* the entries as write_directory writes them: one per element of the list,
\* the last one exchanged with the one at swapped_with_back_id
ordered_entries(entries, swapped) == swap(entries, Len(entries), swapped)

\* for entry in entries: file.write(entry), each entry directory_entry_size
\* bytes (create_directory_entry asserts it)
write_entries(m, img, entries) ==
    img \o [k \in 1..Len(entries) |->
               [kind |-> "raw", id |-> 0, off |-> 0, len |-> Len(entries[k]),
                data |-> entries[k],
                pos |-> Size(img) + (k - 1) * get_config(m).directory_entry_size]]

\* write_directory on the output file img: the exception raised, the list,
\* the output file and the value returned
write_directory(m, cs, img, swapped) ==
    LET config == get_config(m)
        space_need_for_directory == config.max_number_of_files * config.directory_entry_size
        p == pad_file_until_directory_with_dummy_rom(m, cs, img)
        made == [k \in 1..Len(p.contents) |-> create_directory_entry(m, p.contents[k])]
        failed == {k \in 1..Len(made) : made[k].err # "none"}
        entries == ordered_entries([k \in 1..Len(made) |-> made[k].entry], swapped)
        empty_directory_entries == config.max_number_of_files - Len(p.contents)
        full == Write(write_entries(m, p.bytes, entries),
                      FillRun(229, empty_directory_entries * 16))
        stop(e, b) == [err |-> e, contents |-> p.contents, bytes |-> b, free |-> p.free]
    IN  IF p.err # "none" THEN p
        ELSE IF Size(p.bytes) # config.final_file_size - space_need_for_directory
        THEN stop("AssertionError", p.bytes)
        ELSE IF failed # {} THEN stop(made[Min(failed)].err, p.bytes)
        ELSE IF Size(full) # config.final_file_size THEN stop("AssertionError", full)
        ELSE stop("none", full)

\* the exceptions main catches and reports: "ImageOverflow" is the error of
\* line 188, "DirectoryDoesNotFit" of line 217, "NoSlotForFiller" of line 224
InputError == {"NoInputFiles", "TooManyFiles", "DuplicateName", "NameTooLong",
               "NonAsciiName", "ImageOverflow", "DirectoryDoesNotFit", "NoSlotForFiller"}

(***************************************************************************)
(* kc85.py: main().  One action per call of main; write_files_with_padding *)
(* is three: opening the output, one pass of its loop, its check.          *)
(***************************************************************************)
\* line 319: outputfile, modus, contents = get_file_contents(...)
GetFileContents ==
    /\ pc = "start"
    /\ LET r == get_file_contents(modus, files) IN
       /\ err' = r.err
       /\ contents' = r.contents
       /\ pc' = IF r.err = "none" THEN "read" ELSE "failed"
    /\ UNCHANGED <<modus, files, disk, new_contents, write_offsets,
                   swapped_with_back_id, free_space_in_padding_size>>
    /\ UNCHANGED mvars

\* line 322: swapped_with_back_id = move_smallest_file_to_back(modus, contents)
MoveSmallestFileToBack ==
    /\ pc = "read"
    /\ LET r == move_smallest_file_to_back(modus, contents) IN
       /\ contents' = r.contents
       /\ swapped_with_back_id' = r.idc
    /\ pc' = "moved"
    /\ UNCHANGED <<modus, files, disk, err, new_contents, write_offsets,
                   free_space_in_padding_size>>
    /\ UNCHANGED mvars

\* lines 172-175: outputfile.unlink(missing_ok=True); open(outputfile, "ab")
OpenOutput ==
    /\ pc = "moved"
    /\ disk' = [exists |-> TRUE, bytes |-> <<>>]
    /\ new_contents' = <<>>
    /\ write_offsets' = <<>>
    /\ pc' = "writing"
    /\ UNCHANGED <<modus, files, err, contents, swapped_with_back_id,
                   free_space_in_padding_size>>
    /\ UNCHANGED mvars

\* lines 176-184: one pass of the loop
WriteOneFile ==
    /\ pc = "writing"
    /\ Len(new_contents) < Len(contents)
    /\ LET r == write_one_file(modus, contents[Len(new_contents) + 1], disk.bytes) IN
       /\ new_contents' = Append(new_contents, r.entry)
       /\ write_offsets' = Append(write_offsets, Size(disk.bytes))
       /\ disk' = [disk EXCEPT !.bytes = r.bytes]
    /\ UNCHANGED <<modus, files, pc, err, contents, swapped_with_back_id,
                   free_space_in_padding_size>>
    /\ UNCHANGED mvars

\* lines 186-193, and the assignment of line 323
CheckFileSize ==
    /\ pc = "writing"
    /\ Len(new_contents) = Len(contents)
    /\ err' = file_size_error(modus, disk.bytes)
    /\ contents' = IF err' = "none" THEN new_contents ELSE contents
    /\ pc' = IF err' = "none" THEN "written" ELSE "failed"
    /\ UNCHANGED <<modus, files, disk, new_contents, write_offsets,
                   swapped_with_back_id, free_space_in_padding_size>>
    /\ UNCHANGED mvars

\* line 324: free_space_in_padding_size = write_directory(...)
WriteDirectory ==
    /\ pc = "written"
    /\ LET r == write_directory(modus, contents, disk.bytes, swapped_with_back_id) IN
       /\ disk' = [exists |-> TRUE, bytes |-> r.bytes]
       /\ err' = r.err
       /\ contents' = r.contents
       /\ free_space_in_padding_size' =
              IF r.err = "none" THEN r.free ELSE free_space_in_padding_size
       /\ pc' = IF r.err = "none" THEN "done"
                ELSE IF r.err \in InputError THEN "failed" ELSE "crashed"
    /\ UNCHANGED <<modus, files, new_contents, write_offsets, swapped_with_back_id>>
    /\ UNCHANGED mvars

(***************************************************************************)
(* kc85.py: the inputs of the model.                                       *)
(***************************************************************************)
\* "F<i>.ROM", i in two digits: a valid name for the i-th line
IndexName(i) == <<70, 48 + (i \div 10), 48 + (i % 10), 46, 82, 79, 77>>

\* the size of the directory
DirectorySize(m) == get_config(m).max_number_of_files * get_config(m).directory_entry_size

\* a length that, padded, leaves two blocks of the image free and is
\* followed by `slack` bytes of padding (0 < slack < padding_size)
BigLen(m, slack) ==
    get_config(m).final_file_size - 2 * get_config(m).padding_size - slack

\* lengths of input files: empty, short, a whole block, more than a block,
\* and lengths whose padding is just too short or just enough for the directory
LenSet(m) ==
    {0, 1, 3000, 4096, 5000,
     2 * 4096 - DirectorySize(m) + 1,
     BigLen(m, DirectorySize(m)),
     BigLen(m, DirectorySize(m) - 1)}

\* lists of up to MaxFiles valid, distinct names with any of these lengths
SizedLists(m) ==
    UNION {{[i \in 1..n |-> [dir |-> "", name |-> IndexName(i), len |-> lens[i]]] :
               lens \in [1..n -> LenSet(m)]} : n \in 0..MaxFiles}

\* file names: "A.ROM", "A.", "README", ".ROM", "LONGSTEM9.X", "A.LONG", "Ä.ROM"
NameSet ==
    {<<65, 46, 82, 79, 77>>, <<65, 46>>, <<82, 69, 65, 68, 77, 69>>, <<46, 82, 79, 77>>,
     <<76, 79, 78, 71, 83, 84, 69, 77, 57, 46, 88>>, <<65, 46, 76, 79, 78, 71>>,
     <<196, 46, 82, 79, 77>>}

NamedLines(m) ==
    [dir : {"", "sub/"}, name : NameSet, len : {3000, 5000, BigLen(m, DirectorySize(m))}]

\* lists of one or two lines with any of the names; one path is one file
NamedLists(m) ==
    {<<a>> : a \in NamedLines(m)} \cup
    {<<p[1], p[2]>> :
        p \in {q \in NamedLines(m) \X NamedLines(m) :
                  (q[1].dir = q[2].dir /\ q[1].name = q[2].name) => q[1].len = q[2].len}}

\* lists of one file less than, as many as, and one more than the directory
\* has entries, all files of one length
FullLists(m) ==
    {[i \in 1..n |-> [dir |-> "", name |-> IndexName(i), len |-> len]] :
        n \in {get_config(m).max_number_of_files - 1,
               get_config(m).max_number_of_files,
               get_config(m).max_number_of_files + 1},
        len \in {1, 2 * 4096 - DirectorySize(m), 2 * 4096 - DirectorySize(m) + 1}}

KcIdle ==
    /\ modus = "M048"
    /\ files = <<>>
    /\ disk = NoFile
    /\ pc = "idle"
    /\ err = "none"
    /\ contents = <<>>
    /\ new_contents = <<>>
    /\ write_offsets = <<>>
    /\ swapped_with_back_id = 0
    /\ free_space_in_padding_size = 0

M044Idle ==
    /\ output_file_size_in_MB = 0
    /\ m_files = <<>>
    /\ m_contents = <<>>
    /\ m_written = 0
    /\ current_file_size = 0
    /\ m_disk = NoFile
    /\ m_pc = "idle"
    /\ m_err = "none"

Init ==
    /\ modus \in modi
    /\ files \in SizedLists(modus) \cup NamedLists(modus) \cup FullLists(modus)
    /\ disk \in {NoFile, StaleFile}
    /\ pc = "start"
    /\ err = "none"
    /\ contents = <<>>
    /\ new_contents = <<>>
    /\ write_offsets = <<>>
    /\ swapped_with_back_id = 0
    /\ free_space_in_padding_size = 0
    /\ M044Idle

Next ==
    \/ GetFileContents
    \/ MoveSmallestFileToBack
    \/ OpenOutput
    \/ WriteOneFile
    \/ CheckFileSize
    \/ WriteDirectory

Spec == Init /\ [][Next]_vars

(***************************************************************************)
(* M044/m044.py.                                                           *)
(***************************************************************************)
\* the value of a hexadecimal digit, -1 for any other character
hex_digit(c) ==
    IF c \in 48..57 THEN c - 48
    ELSE IF c \in 65..70 THEN c - 55
    ELSE IF c \in 97..102 THEN c - 87
    ELSE -1

RECURSIVE hex_value(_)
\* int(digits, 16) for a string of hexadecimal digits
hex_value(digits) ==
    IF digits = <<>> THEN 0
    ELSE 16 * hex_value(SubSeq(digits, 1, Len(digits) - 1)) + hex_digit(digits[Len(digits)])

\* parse_starting_pos: the exception raised, or the value
parse_starting_pos(as_string) ==
    LET plain == SelectSeq(as_string, LAMBDA c : c # 95)
        negative == plain # <<>> /\ plain[1] = 45
        digits == IF negative THEN Tail(plain) ELSE plain
        value == IF negative THEN 0 - hex_value(digits) ELSE hex_value(digits)
    IN  IF digits = <<>> \/ \E i \in 1..Len(digits) : hex_digit(digits[i]) = -1
        THEN [err |-> "ValueError", value |-> 0]
        ELSE IF value < 0 THEN [err |-> "NegativePosition", value |-> value]
        ELSE IF value % 8192 # 0 THEN [err |-> "UnalignedPosition", value |-> value]
        ELSE [err |-> "none", value |-> value]

\* get_file_contents of m044.py, after the manifest's lines were read: a
\* line is a position, as written, and the length of the file named
m044_get_file_contents(size, lines) ==
    LET bad == {i \in 1..Len(lines) : parse_starting_pos(lines[i].pos).err # "none"}
        fail(e) == [err |-> e, contents |-> <<>>]
    IN  IF size \notin {1, 2, 4, 8} THEN fail("BadOutputDefinition")
        ELSE IF Len(lines) = 0 THEN fail("NoInputFiles")
        ELSE IF bad # {} THEN fail(parse_starting_pos(lines[Min(bad)].pos).err)
        ELSE [err |-> "none",
              contents |-> [i \in 1..Len(lines) |->
                  [id |-> i, len |-> lines[i].len,
                   start_pos |-> parse_starting_pos(lines[i].pos).value]]]

\* line 101: sorted(contents, key=...) returns a new list, which is dropped;
\* the loop of write_file runs over contents as it was given
loop_order(cs) == cs

\* the exceptions main of m044.py catches and reports
M044InputError == {"BadOutputDefinition", "NoInputFiles", "NegativePosition",
                   "UnalignedPosition", "Overwrite", "TooBig"}

\* line 134: output_file, output_file_size_in_MB, contents = get_file_contents(...)
M044GetFileContents ==
    /\ m_pc = "start"
    /\ LET r == m044_get_file_contents(output_file_size_in_MB, m_files) IN
       /\ m_err' = r.err
       /\ m_contents' = r.contents
       /\ m_pc' = IF r.err = "none" THEN "read"
                  ELSE IF r.err \in M044InputError THEN "failed" ELSE "crashed"
    /\ UNCHANGED <<output_file_size_in_MB, m_files, m_written, current_file_size, m_disk>>
    /\ UNCHANGED kcvars

\* lines 98-104: unlink, sorted, open(output_file, "ab"), current_file_size = 0
M044OpenOutput ==
    /\ m_pc = "read"
    /\ m_disk' = [exists |-> TRUE, bytes |-> <<>>]
    /\ m_contents' = loop_order(m_contents)
    /\ m_written' = 0
    /\ current_file_size' = 0
    /\ m_pc' = "writing"
    /\ UNCHANGED <<output_file_size_in_MB, m_files, m_err>>
    /\ UNCHANGED kcvars

\* lines 105-114: one pass of the loop
M044WriteOneFile ==
    /\ m_pc = "writing"
    /\ m_written < Len(m_contents)
    /\ LET file_content == m_contents[m_written + 1] IN
       IF current_file_size > file_content.start_pos
       THEN /\ m_err' = "Overwrite"
            /\ m_pc' = "failed"
            /\ UNCHANGED <<m_written, current_file_size, m_disk>>
       ELSE /\ m_disk' = [m_disk EXCEPT !.bytes =
                    Write(Write(m_disk.bytes,
                                FillRun(255, file_content.start_pos - current_file_size)),
                          ContentRun(file_content.id, file_content.len))]
            /\ current_file_size' = file_content.start_pos + file_content.len
            /\ m_written' = m_written + 1
            /\ UNCHANGED <<m_pc, m_err>>
    /\ UNCHANGED <<output_file_size_in_MB, m_files, m_contents>>
    /\ UNCHANGED kcvars

\* lines 116-123: the check of the size, the fill up to it
M044FillOutput ==
    /\ m_pc = "writing"
    /\ m_written = Len(m_contents)
    /\ LET output_file_size == output_file_size_in_MB * 1024 * 1024
           filled == Write(m_disk.bytes, FillRun(255, output_file_size - current_file_size))
       IN  IF current_file_size > output_file_size
           THEN /\ m_err' = "TooBig"
                /\ m_pc' = "failed"
                /\ UNCHANGED m_disk
           ELSE /\ m_disk' = [m_disk EXCEPT !.bytes = filled]
                /\ m_err' = IF Size(filled) = output_file_size THEN "none"
                            ELSE "AssertionError"
                /\ m_pc' = IF Size(filled) = output_file_size THEN "done" ELSE "crashed"
    /\ UNCHANGED <<output_file_size_in_MB, m_files, m_contents, m_written, current_file_size>>
    /\ UNCHANGED kcvars

\* positions as written: "0", "2000", "4_000", "1000", "-2000", "FE000"
PosSet ==
    {<<48>>, <<50, 48, 48, 48>>, <<52, 95, 48, 48, 48>>, <<49, 48, 48, 48>>,
     <<45, 50, 48, 48, 48>>, <<70, 69, 48, 48, 48>>}

\* manifests of up to MaxPlaced lines
PlacedLists ==
    UNION {[1..n -> [pos : PosSet, len : {1, 8192, 8193}]] : n \in 0..MaxPlaced}

InitM044 ==
    /\ output_file_size_in_MB \in {1, 2, 3}
    /\ m_files \in PlacedLists
    /\ m_contents = <<>>
    /\ m_written = 0
    /\ current_file_size = 0
    /\ m_disk \in {NoFile, StaleFile}
    /\ m_pc = "start"
    /\ m_err = "none"
    /\ KcIdle

NextM044 ==
    \/ M044GetFileContents
    \/ M044OpenOutput
    \/ M044WriteOneFile
    \/ M044FillOutput

SpecM044 == InitM044 /\ [][NextM044]_vars

(***************************************************************************)
(* Reading an image back.                                                  *)
(***************************************************************************)
final_file_size == get_config(modus).final_file_size

\* where the directory begins in a finished image
DirectoryStart == final_file_size - DirectorySize(modus)

\* the 16 bytes of directory slot `slot` (from 1) of the output file
DirRecord(slot) ==
    [j \in 1..16 |-> ByteAt(disk.bytes, DirectoryStart + 16 * (slot - 1) + (j - 1))]

Literal(b) == [file |-> 0, at |-> b]

\* a used entry: status byte 0x01
IsUsed(rec) == rec[1] = Literal(1)

\* a string without its trailing spaces
Trimmed(str) == SubSeq(str, 1, Max({0} \cup {i \in 1..Len(str) : str[i] # 32}))

\* stem and extension of an entry: the attribute bits masked off, the
\* trailing spaces trimmed
RecordName(rec) ==
    <<Trimmed([j \in 1..8 |-> rec[j + 1].at % 128]),
      Trimmed([j \in 1..3 |-> rec[j + 9].at % 128])>>

\* bytes 13-14 of an entry, little-endian
RecordSector(rec) == rec[14].at + 256 * rec[15].at

\* stem and extension of a file name
NamePair(name) ==
    <<splitext(name)[1],
      IF splitext(name)[2] = <<>> THEN <<>> ELSE Tail(splitext(name)[2])>>

\* the names of the used entries other than DUMMY.ROM, in the order of the slots
UsedInputNames ==
    LET slots == [s \in 1..get_config(modus).max_number_of_files |-> DirRecord(s)]
        named == SelectSeq(slots, LAMBDA r : IsUsed(r) /\ RecordName(r) # NamePair(DummyName))
    IN  [k \in 1..Len(named) |-> RecordName(named[k])]

\* the bytes from the directory's start on are directory entries or 0xE5,
\* and nothing before it reaches into it
DirectoryRegionIsWhole ==
    \A i \in 1..Len(disk.bytes) :
       LET r == disk.bytes[i] IN
       IF r.pos >= DirectoryStart
       THEN r.kind = "raw" \/ (r.kind = "fill" /\ r.id = 229)
       ELSE r.pos + r.len <= DirectoryStart /\ r.kind # "raw"

\* write_files_with_padding has written every file of the manifest
AllWritten == Len(files) > 0 /\ Len(new_contents) = Len(files)

\* the size of the output after the last pass of the loop
UsedSize ==
    LET n == Len(new_contents) IN
    write_offsets[n] + new_contents[n].len + padding_after(modus, new_contents[n].len)

\* the padding after the file written last
Slack == padding_after(modus, new_contents[Len(new_contents)].len)

\* a DUMMY.ROM was appended to main's list
HasDummy == Len(contents) = Len(files) + 1 /\ contents[Len(contents)].id = 0

Ended == pc \in {"done", "failed", "crashed"}

(***************************************************************************)
(* The claims.                                                             *)
(***************************************************************************)
\* C1: a build that raises no error leaves an image of exactly
\* final_file_size bytes whose last max_number_of_files * 16 bytes are the
\* directory, with or without DUMMY.ROM; none of the size assertions of
\* pad_file_until_directory_with_dummy_rom and write_directory fails.
C1_ImageHasFinalSize ==
    /\ err # "AssertionError"
    /\ pc = "done" =>
          /\ disk.exists
          /\ Size(disk.bytes) = final_file_size
          /\ DirectoryRegionIsWhole

\* C1: a finished image whose directory was cut out of the padding of the
\* file written last
C1_Witness_Carved ==
    /\ pc = "done"
    /\ ~HasDummy
    /\ Len(files) >= 2
    /\ Size(disk.bytes) = final_file_size

\* a finished image with a DUMMY.ROM filler
Reached_DummyImage ==
    /\ pc = "done"
    /\ HasDummy
    /\ Size(disk.bytes) = final_file_size

\* C2: in a finished image the used entries of the input files stand in the
\* order of the input list.
C2_DirectoryInInputOrder ==
    pc = "done" =>
        UsedInputNames = [i \in 1..Len(files) |-> NamePair(files[i].name)]

\* C3: in a finished image every input file has a used entry of its name
\* whose starting sector times sector_size is the offset its content was
\* written at, and the image holds the whole content at that offset.
C3_SectorsPointAtContents ==
    pc = "done" =>
        \A k \in 1..Len(contents) :
           contents[k].id # 0 =>
              /\ \E slot \in 1..get_config(modus).max_number_of_files :
                    /\ IsUsed(DirRecord(slot))
                    /\ RecordName(DirRecord(slot)) = NamePair(files[contents[k].id].name)
                    /\ RecordSector(DirRecord(slot)) * get_config(modus).sector_size
                           = write_offsets[k]
              /\ HoldsContent(disk.bytes, write_offsets[k], contents[k].id,
                              files[contents[k].id].len)

\* C3: a finished image whose directory was cut out of the padding of the
\* file written last, a file that was not the last of the input list
C3_Witness_MovedAndCarved ==
    /\ pc = "done"
    /\ ~HasDummy
    /\ swapped_with_back_id < Len(files)
    /\ files[swapped_with_back_id].len > get_config(modus).padding_size

\* C4: no build of a list with two entries of one resolved name finishes
\* (DuplicateName ends it), and no finished image holds two used entries of
\* one name.
C4_DuplicateNamesRejected ==
    pc = "done" =>
        /\ \A i, j \in 1..Len(files) : i # j => files[i].name # files[j].name
        /\ \A s, t \in 1..get_config(modus).max_number_of_files :
              (s # t /\ IsUsed(DirRecord(s)) /\ IsUsed(DirRecord(t)))
                  => RecordName(DirRecord(s)) # RecordName(DirRecord(t))

\* C5: a build that comes to encode the entry of a name without a dot (stem
\* of at most 8 ASCII characters) finishes, and that entry holds 0x20 in
\* bytes 9-11, byte 9 with its attribute bit set.
C5_NoDotEncodedWithSpaces ==
    \A i \in 1..Len(files) :
       (/\ pc \in {"done", "crashed"}
        /\ \A j \in 1..Len(files[i].name) : files[i].name[j] # 46
        /\ resolve_name(files[i].name) = "none")
       => /\ pc = "done"
          /\ \E slot \in 1..get_config(modus).max_number_of_files :
                /\ IsUsed(DirRecord(slot))
                /\ RecordName(DirRecord(slot)) = <<files[i].name, <<>>>>
                /\ <<DirRecord(slot)[10], DirRecord(slot)[11], DirRecord(slot)[12]>>
                       = <<Literal(160), Literal(32), Literal(32)>>

\* C6: a build ends with a whole image of final_file_size bytes, or, failing
\* with ImageOverflow, DirectoryDoesNotFit or NoSlotForFiller, leaves no
\* output file.
C6_NoPartialImage ==
    /\ pc = "done" => disk.exists /\ Size(disk.bytes) = final_file_size
    /\ (pc = "failed" /\ err \in {"ImageOverflow", "DirectoryDoesNotFit", "NoSlotForFiller"})
           => ~disk.exists

\* C7: when the padded contents fill the image exactly, the build fails with
\* DirectoryDoesNotFit exactly if the padding of the file written last is
\* shorter than the directory; otherwise it finishes without DUMMY.ROM, the
\* directory in the end of that padding.
C7_ExactFill ==
    (Ended /\ AllWritten /\ UsedSize = final_file_size) =>
        /\ (err = "DirectoryDoesNotFit") <=> (Slack < DirectorySize(modus))
        /\ Slack >= DirectorySize(modus) =>
              /\ pc = "done"
              /\ ~HasDummy
              /\ Size(disk.bytes) = final_file_size
              /\ DirectoryRegionIsWhole

\* C9: when the padded contents fill the image exactly and some file is
\* followed by padding of at least the directory's size, the file written
\* last is such a file, and the build does not fail with DirectoryDoesNotFit.
C9_SpaceForDirectoryProvided ==
    (/\ Ended
     /\ AllWritten
     /\ UsedSize = final_file_size
     /\ \E i \in 1..Len(files) : padding_after(modus, files[i].len) >= DirectorySize(modus))
    => /\ Slack >= DirectorySize(modus)
       /\ err # "DirectoryDoesNotFit"

\* Scenario A: the 32-file variant, two input files of 5000 and 3000 bytes
\* that get_file_contents accepted
ScenarioA ==
    /\ modus = "M048"
    /\ Len(files) = 2
    /\ files[1].len = 5000
    /\ files[2].len = 3000
    /\ Len(contents) >= 2

\* C8 as stated: in Scenario A the build finishes with 262144 bytes, the
\* contents take 2 padding blocks (8192 bytes), and no DUMMY.ROM is added.
C8_ScenarioA_NoFiller ==
    ScenarioA =>
        /\ pc = "written" => Size(disk.bytes) = 8192
        /\ Ended => /\ pc = "done"
                    /\ Size(disk.bytes) = 262144
                    /\ ~HasDummy

\* C8 as amended: in Scenario A the contents take 3 padding blocks (12288
\* bytes), no InputError is raised, a DUMMY.ROM of 249856 bytes is appended
\* at sector 96, and a build that finishes leaves 262144 bytes, an entry for
\* DUMMY.ROM in the directory, and reports 60 free blocks.
C8_ScenarioA_WithFiller ==
    ScenarioA =>
        /\ pc = "written" => Size(disk.bytes) = 12288
        /\ Ended => /\ pc # "failed"
                    /\ HasDummy
                    /\ contents[3].filename = DummyName
                    /\ contents[3].len = 249856
                    /\ contents[3].starting_sector = 96
        /\ pc = "done" =>
              /\ Size(disk.bytes) = 262144
              /\ free_space_in_padding_size = 60
              /\ \E slot \in 1..32 :
                    /\ IsUsed(DirRecord(slot))
                    /\ RecordName(DirRecord(slot)) = NamePair(DummyName)
                    /\ RecordSector(DirRecord(slot)) = 96

\* C8: Scenario A, finished, with its DUMMY.ROM
C8_Witness_ScenarioADone ==
    /\ ScenarioA
    /\ pc = "done"
    /\ HasDummy
    /\ Len(disk.bytes) > 5

\* the files of an M044 manifest were read, their ranges
\* [start_pos, start_pos + len) are pairwise disjoint and end within the output
M044Placeable ==
    /\ Len(m_files) > 0
    /\ Len(m_contents) = Len(m_files)
    /\ \A i, j \in 1..Len(m_contents) :
          i # j => \/ m_contents[i].start_pos + m_contents[i].len <= m_contents[j].start_pos
                   \/ m_contents[j].start_pos + m_contents[j].len <= m_contents[i].start_pos
    /\ \A i \in 1..Len(m_contents) :
          m_contents[i].start_pos + m_contents[i].len <= output_file_size_in_MB * 1024 * 1024

\* C10: for files with disjoint ranges within the output, in any order of
\* the manifest, write_file raises nothing and leaves an output of
\* output_file_size_in_MB * 1048576 bytes, each content at its start_pos,
\* 0xFF in every other byte.
C10_PlacedInAnyOrder ==
    (m_pc \in {"done", "failed", "crashed"} /\ M044Placeable) =>
        /\ m_pc = "done"
        /\ m_err = "none"
        /\ Size(m_disk.bytes) = output_file_size_in_MB * 1048576
        /\ \A i \in 1..Len(m_contents) :
              HoldsContent(m_disk.bytes, m_contents[i].start_pos, m_contents[i].id,
                           m_contents[i].len)
        /\ \A k \in 1..Len(m_disk.bytes) :
              m_disk.bytes[k].kind # "content"
                  => m_disk.bytes[k].kind = "fill" /\ m_disk.bytes[k].id = 255

\* files with disjoint ranges, given in ascending order, are all placed
Reached_M044Image ==
    /\ m_pc = "done"
    /\ M044Placeable
    /\ Len(m_contents) >= 2

====
